---- MODULE Spec2Model ----
(***************************************************************************)
(* A model of src/task_4.py: the value cleaners (clean_price,              *)
(* clean_date_string), the identity reconciler (reconciliate_users), the   *)
(* dataset pipeline (process_dataset) and the report assembler (main).     *)
(*                                                                         *)
(* Text is modelled as a sequence of one-character strings, so that        *)
(* str.replace, str.strip, str.lower, re.sub and slicing are computed the  *)
(* way Python computes them.  A missing cell (NaN / None, pd.isna) is the  *)
(* model value NaN.                                                        *)
(***************************************************************************)
EXTENDS Integers, Sequences, FiniteSets, TLC

VARIABLES
    pc,          \* position of the operation under study
    date_str,    \* clean_date_string: its argument
    cleaned,     \* clean_date_string(date_str)
    recleaned,   \* clean_date_string(cleaned)
    value,       \* clean_price: its argument
    amount,      \* clean_price(value): a number, or the error it raised
    users_df,    \* reconciliate_users: the user table, a list of rows
    n_groups,    \* reconciliate_users: len(comps)
    id_map,      \* reconciliate_users: user id -> canonical id
    groups,      \* reconciliate_users: canonical id -> list of member ids
    dataset,     \* process_dataset: the files of the folder
    result,      \* process_dataset: what it returned, or the error it raised
    fs,          \* main: the files of each folder of DATA_DIRS
    dir_idx,     \* main: the position of the loop in DATA_DIRS
    results,     \* main: the list results
    output       \* main: the tabs of the document written to OUTPUT_FILE

vars == <<pc, date_str, cleaned, recleaned, value, amount,
          users_df, n_groups, id_map, groups, dataset, result,
          fs, dir_idx, results, output>>

dateVars == <<date_str, cleaned, recleaned>>
priceVars == <<value, amount>>
reconVars == <<users_df, n_groups, id_map, groups>>
datasetVars == <<dataset, result>>
mainVars == <<fs, dir_idx, results, output>>

\* ------------------------------------------------------------------ bounds

\* longest raw timestamp text the date cleaner is tried on
MaxDateLen == 6
\* longest raw price text the price cleaner is tried on
MaxPriceLen == 3
\* most rows of a user table
MaxRows == 3
\* most rows of an orders table
MaxOrders == 3

\* ------------------------------------------------------------------ text

\* the missing marker of a text cell: no text is equal to it, since every
\* element of a text is a single character
NaN == <<"NaN">>
\* pd.isna(x)
isna(x) == x = NaN

\* str(NaN)
NaNText == <<"n", "a", "n">>

\* the characters str.strip() removes
Whitespace == {" ", "\t", "\n"}

\* the characters \d matches
Digits == {"0", "1", "2", "3", "4", "5", "6", "7", "8", "9"}

DigitValue(c) ==
    CASE c = "0" -> 0 [] c = "1" -> 1 [] c = "2" -> 2 [] c = "3" -> 3
      [] c = "4" -> 4 [] c = "5" -> 5 [] c = "6" -> 6 [] c = "7" -> 7
      [] c = "8" -> 8 [] c = "9" -> 9

\* `sub in s`
Contains(s, sub) ==
    \E i \in 1..(Len(s) - Len(sub) + 1) : SubSeq(s, i, i + Len(sub) - 1) = sub

\* s.replace(old, new) that stops after the first occurrence
RECURSIVE ReplaceFirst(_, _, _)
ReplaceFirst(s, old, new) ==
    IF Len(s) < Len(old) THEN s
    ELSE IF SubSeq(s, 1, Len(old)) = old
         THEN new \o SubSeq(s, Len(old) + 1, Len(s))
         ELSE <<Head(s)>> \o ReplaceFirst(Tail(s), old, new)

\* s.replace(old, new): every non-overlapping occurrence, left to right
RECURSIVE Replace(_, _, _)
Replace(s, old, new) ==
    IF Len(s) < Len(old) THEN s
    ELSE IF SubSeq(s, 1, Len(old)) = old
         THEN new \o Replace(SubSeq(s, Len(old) + 1, Len(s)), old, new)
         ELSE <<Head(s)>> \o Replace(Tail(s), old, new)

RECURSIVE lstrip(_)
lstrip(s) ==
    IF s # <<>> /\ Head(s) \in Whitespace THEN lstrip(Tail(s)) ELSE s

RECURSIVE rstrip(_)
rstrip(s) ==
    IF s # <<>> /\ s[Len(s)] \in Whitespace
    THEN rstrip(SubSeq(s, 1, Len(s) - 1))
    ELSE s

\* s.strip()
strip(s) == rstrip(lstrip(s))

\* the characters of s that are in `keep`, in order
RECURSIVE Keep(_, _)
Keep(s, keep) ==
    IF s = <<>> THEN <<>>
    ELSE (IF Head(s) \in keep THEN <<Head(s)>> ELSE <<>>) \o Keep(Tail(s), keep)


\* the lower-case letter of each upper-case letter
LowerOf ==
    "A" :> "a" @@ "B" :> "b" @@ "C" :> "c" @@ "D" :> "d" @@ "E" :> "e" @@ "F" :> "f"
    @@ "G" :> "g" @@ "H" :> "h" @@ "I" :> "i" @@ "J" :> "j" @@ "K" :> "k" @@ "L" :> "l"
    @@ "M" :> "m" @@ "N" :> "n" @@ "O" :> "o" @@ "P" :> "p" @@ "Q" :> "q" @@ "R" :> "r"
    @@ "S" :> "s" @@ "T" :> "t" @@ "U" :> "u" @@ "V" :> "v" @@ "W" :> "w" @@ "X" :> "x"
    @@ "Y" :> "y" @@ "Z" :> "z"

\* c.lower()
LowerChar(c) == IF c \in DOMAIN LowerOf THEN LowerOf[c] ELSE c

\* s.lower()
RECURSIVE lower(_)
lower(s) == IF s = <<>> THEN <<>> ELSE <<LowerChar(Head(s))>> \o lower(Tail(s))

\* s[:n]
Prefix(s, n) == SubSeq(s, 1, IF Len(s) < n THEN Len(s) ELSE n)

\* the elements of a list, as a set
Range(s) == {s[i] : i \in 1..Len(s)}

\* every ordering of the elements of a finite set
Orderings(S) ==
    {p \in [1..Cardinality(S) -> S] : \A i, j \in 1..Cardinality(S) : p[i] = p[j] => i = j}

\* the characters of the texts below, by code point
CodeOrder == <<" ", "$", "(", ")", ",", "-", ".", "/", "0", "1", "2", "3", "4", "5", "6", "7", "8", "9", ":", "@", "A", "B", "C", "D", "E", "F", "G", "H", "I", "J", "K", "L", "M", "N", "O", "P", "Q", "R", "S", "T", "U", "V", "W", "X", "Y", "Z", "_", "a", "b", "c", "d", "e", "f", "g", "h", "i", "j", "k", "l", "m", "n", "o", "p", "q", "r", "s", "t", "u", "v", "w", "x", "y", "z">>

Rank(c) == CHOOSE i \in 1..Len(CodeOrder) : CodeOrder[i] = c

\* a < b for two texts, as Python compares str
RECURSIVE TextLess(_, _)
TextLess(a, b) ==
    IF b = <<>> THEN FALSE
    ELSE IF a = <<>> THEN TRUE
    ELSE IF Head(a) = Head(b) THEN TextLess(Tail(a), Tail(b))
    ELSE Rank(Head(a)) < Rank(Head(b))

\* the texts of a finite set in ascending order
Sorted(S) == CHOOSE p \in Orderings(S) : \A i, j \in 1..Len(p) : i < j => TextLess(p[i], p[j])

\* sep.join(texts)
RECURSIVE Join(_, _)
Join(sep, texts) ==
    IF texts = <<>> THEN <<>>
    ELSE IF Len(texts) = 1 THEN Head(texts)
    ELSE Head(texts) \o sep \o Join(sep, Tail(texts))

\* ------------------------------------------------------- clean_date_string

AM_dots == <<"A", ".", "M", ".">>
PM_dots == <<"P", ".", "M", ".">>
M_dots == <<".", "M", ".">>

clean_date_string(d) ==
    IF isna(d) THEN NaNText
    ELSE strip(Replace(Replace(Replace(d, AM_dots, <<"A", "M">>),
                               PM_dots, <<"P", "M">>),
                       M_dots, <<"M">>))

\* ------------------------------------------------------------- clean_price

\* the decimal value of a run of digits
RECURSIVE DigitsValue(_)
DigitsValue(s) ==
    IF s = <<>> THEN 0
    ELSE 10 * DigitsValue(SubSeq(s, 1, Len(s) - 1)) + DigitValue(s[Len(s)])

DotCount(s) == Cardinality({i \in 1..Len(s) : s[i] = "."})

\* number of digits after the decimal point of a text with one "."
FracLen(s) == Len(s) - (CHOOSE i \in 1..Len(s) : s[i] = ".")

NotCalled == [tag |-> "none"]
ValueError == [tag |-> "ValueError"]
Ok(v) == [tag |-> "ok", val |-> v]

\* float(s) for a text of digits and ".": raises unless the text has a
\* digit and at most one "."; the value is in units of 10 ^ -MaxPriceLen
float(s) ==
    IF Keep(s, Digits) = <<>> \/ DotCount(s) > 1 THEN ValueError
    ELSE Ok(DigitsValue(Keep(s, Digits))
            * 10 ^ (MaxPriceLen - (IF DotCount(s) = 1 THEN FracLen(s) ELSE 0)))

\* the result is in units of 10 ^ -(MaxPriceLen + 1); the multiplier 1.2 is 12 tenths
clean_price(v) ==
    IF isna(v) THEN Ok(0)
    ELSE LET s_val == strip(v)
             multiplier == IF Contains(s_val, <<"€">>) THEN 12 ELSE 10
             clean_val == Keep(s_val, Digits \cup {"."})
         IN IF clean_val = <<>> THEN Ok(0)
            ELSE IF float(clean_val).tag = "ok"
                 THEN Ok(float(clean_val).val * multiplier)
                 ELSE ValueError

\* ------------------------------------------------------ reconciliate_users

\* users_df.dropna(subset=['id']): the rows with an id, in order
RECURSIVE dropna_id(_)
dropna_id(rows) ==
    IF rows = <<>> THEN <<>>
    ELSE (IF isna(Head(rows).id) THEN <<>> ELSE <<Head(rows)>>) \o dropna_id(Tail(rows))

\* the attribute categories of the lookup
Categories == {"email", "phone", "address"}

\* the address slice
AddressLen == 15
\* a fragment is used when it is longer than this
MinFragment == 4

\* a row's normalized value in one category; NaN stands for None
Prop(row, key) ==
    CASE key = "email" ->
            IF isna(row.email) THEN NaN ELSE strip(lower(row.email))
      [] key = "phone" ->
            IF isna(row.phone) THEN NaN ELSE Keep(row.phone, Digits)
      [] key = "address" ->
            IF isna(row.address) THEN NaN
            ELSE Prefix(strip(lower(row.address)), AddressLen)

\* a fragment usable from length 4 on
UsableFromFour(val) == ~isna(val) /\ val # <<>> /\ Len(val) >= MinFragment

\* `if val and len(val) > 4`
Usable(val) == ~isna(val) /\ val # <<>> /\ Len(val) > MinFragment

\* props of every row, in row order: the normalized value of each category
RECURSIVE PropsOf(_)
PropsOf(rows) ==
    IF rows = <<>> THEN <<>>
    ELSE <<[email   |-> Prop(Head(rows), "email"),
            phone   |-> Prop(Head(rows), "phone"),
            address |-> Prop(Head(rows), "address")]>> \o PropsOf(Tail(rows))

\* lookup[key][val] after the loop over the rows: the ids of the rows from
\* row i on whose value under key is val, in row order
RECURSIVE IdsFrom(_, _, _, _, _)
IdsFrom(rows, props, key, val, i) ==
    IF i > Len(rows) THEN <<>>
    ELSE (IF props[i][key] = val THEN <<rows[i].id>> ELSE <<>>)
         \o IdsFrom(rows, props, key, val, i + 1)

\* lookup[key].values(): one list of ids for each usable value
LookupLists(rows, props, key) ==
    {IdsFrom(rows, props, key, val, 1) :
        val \in {props[i][key] : i \in {j \in 1..Len(rows) : Usable(props[j][key])}}}

\* a path that joins only the first two ids of the list
FirstPairOnly(ids) == IF Len(ids) > 1 THEN {{ids[1], ids[2]}} ELSE {}

\* nx.add_path(G, ids): an edge between each two consecutive ids
PathEdges(ids) == {{ids[i], ids[i + 1]} : i \in 1..(Len(ids) - 1)}

\* the edges of G after the loop over lookup
EdgesOf(rows) ==
    UNION {UNION {PathEdges(ids) :
                    ids \in {l \in LookupLists(rows, props, key) : Len(l) > 1}} :
             <<key, props>> \in Categories \X {PropsOf(rows)}}

\* only the ids that some path touches
NodesOnPaths(rows) == UNION EdgesOf(rows)

\* G.add_nodes_from(valid_users['id'].unique()): a node for every id
NodesOf(rows) == {rows[i].id : i \in 1..Len(rows)}

\* the nodes reachable from S
RECURSIVE Grow(_, _, _)
Grow(S, N, E) ==
    LET S2 == S \cup {m \in N : \E n \in S : {n, m} \in E}
    IN IF S2 = S THEN S ELSE Grow(S2, N, E)

\* each node with its direct neighbours only
Neighbourhoods(N, E) == {{n} \cup {m \in N : {n, m} \in E} : n \in N}

\* nx.connected_components(G)
connected_components(N, E) == {Grow({n}, N, E) : n \in N}

\* the components of the graph G of a user table
Comps(users) ==
    UNION {connected_components(NodesOf(valid_users), EdgesOf(valid_users)) :
             valid_users \in {dropna_id(users)}}

\* list(c) for every component c: the iteration order of a Python set is
\* not fixed by the language, so any ordering may come out, the same one
\* each time the unchanged set c is listed
Listings(comps) ==
    LET orders == UNION {Orderings(c) : c \in comps}
    IN {l \in [comps -> orders] : \A c \in comps : Range(l[c]) = c}

\* the pairs (uid, list(c)[0]) the id_map comprehension produces
IdPairs(comps, listing) ==
    UNION {{<<uid, listing[c][1]>> : uid \in c} : c \in comps}

\* the dict built from (key, value) pairs
DictOf(pairs) ==
    [k \in {p[1] : p \in pairs} |-> (CHOOSE p \in pairs : p[1] = k)[2]]

\* what reconciliate_users returns for components comps listed as listing
Reconciled(comps, listing) ==
    [count  |-> Cardinality(comps),
     id_map |-> DictOf(IdPairs(comps, listing)),
     groups |-> DictOf({<<listing[c][1], listing[c]>> : c \in comps})]

\* ----------------------------------------------------------- generate_plot

\* the first characters of a base64-encoded PNG: the payload of a drawn chart
PngPayload == <<"i", "V", "B", "O", "R", "w">>

\* generate_plot(series, title): "" for an empty series
generate_plot(series) == IF series = <<>> THEN <<>> ELSE PngPayload

\* --------------------------------------------------------- process_dataset

\* the exceptions process_dataset can end with
FileNotFoundError == [tag |-> "FileNotFoundError"]
StopIteration == [tag |-> "StopIteration"]

\* books.columns with ':' removed from every name
RECURSIVE BookColumns(_)
BookColumns(columns) ==
    IF columns = <<>> THEN <<>>
    ELSE <<Replace(Head(columns), <<":">>, <<>>)>> \o BookColumns(Tail(columns))

\* no column matched: next() raises StopIteration
NoColumn == <<"StopIteration">>

\* next(c for c in columns if any of subs is in c), c lower-cased first
\* when lowered
RECURSIVE FirstColumn(_, _, _)
FirstColumn(columns, subs, lowered) ==
    IF columns = <<>> THEN NoColumn
    ELSE IF \E sub \in subs :
               Contains(IF lowered THEN lower(Head(columns)) ELSE Head(columns), sub)
         THEN Head(columns)
         ELSE FirstColumn(Tail(columns), subs, lowered)

\* cols: the column of each role
Cols(order_columns, book_columns) ==
    [date    |-> FirstColumn(order_columns, {<<"d", "a", "t", "e">>, <<"t", "i", "m", "e", "s", "t", "a", "m", "p">>}, TRUE),
     price   |-> FirstColumn(order_columns, {<<"p", "r", "i", "c", "e">>}, TRUE),
     qty     |-> FirstColumn(order_columns, {<<"q", "t", "y">>, <<"q", "u", "a", "n", "t", "i", "t", "y">>}, TRUE),
     item_id |-> FirstColumn(order_columns, {<<"i", "t", "e", "m">>, <<"b", "o", "o", "k">>}, FALSE),
     user_id |-> FirstColumn(order_columns, {<<"u", "s", "e", "r">>}, FALSE),
     book_id |-> FirstColumn(book_columns, {<<"i", "d">>}, FALSE)]

\* pd.to_datetime could not read the text
NaT == <<"NaT">>

\* the texts pd.to_datetime(..., errors='coerce', utc=True) reads here: a
\* day YYYY-MM-DD, alone or followed by " H AM" or " H PM"; the value kept
\* is the day, what strftime('%Y-%m-%d') gives for it
IsDay(t) ==
    /\ Len(t) = 10
    /\ \A i \in {1, 2, 3, 4, 6, 7, 9, 10} : t[i] \in Digits
    /\ t[5] = "-" /\ t[8] = "-"

to_datetime(t) ==
    IF Len(t) = 10 /\ IsDay(t) THEN t
    ELSE IF /\ Len(t) = 15
            /\ IsDay(SubSeq(t, 1, 10))
            /\ t[11] = " " /\ t[12] \in Digits /\ t[13] = " "
            /\ SubSeq(t, 14, 15) \in {<<"A", "M">>, <<"P", "M">>}
         THEN SubSeq(t, 1, 10)
         ELSE NaT

\* the missing marker of a quantity cell
NoQty == 0 - 1

\* orders[qty].fillna(0)
fillna0(q) == IF q = NoQty THEN 0 ELSE q

\* the orders kept by dropna(subset=['dt']), in order, each with its
\* date_str and the outcome of clean_price on its price
RECURSIVE Retained(_)
Retained(orders) ==
    IF orders = <<>> THEN <<>>
    ELSE (IF to_datetime(clean_date_string(Head(orders).date)) = NaT THEN <<>>
          ELSE <<[user     |-> Head(orders).user,
                  item     |-> Head(orders).item,
                  qty      |-> Head(orders).qty,
                  date_str |-> to_datetime(clean_date_string(Head(orders).date)),
                  price    |-> clean_price(Head(orders).price)]>>)
         \o Retained(Tail(orders))

\* orders['paid'] of one kept order
Paid(row) == fillna0(row.qty) * row.price.val

\* the sum of paid over the rows whose column field holds k
RECURSIVE SumPaid(_, _, _)
SumPaid(rows, field, k) ==
    IF rows = <<>> THEN 0
    ELSE (IF Head(rows)[field] = k THEN Head(rows).paid ELSE 0)
         + SumPaid(Tail(rows), field, k)

\* the user reference left as the order gives it
RawUid(user, user_map) == user

\* orders[user_id].map(user_map).fillna(orders[user_id]) for one order
RealUid(user, user_map) ==
    IF user \in DOMAIN user_map THEN user_map[user] ELSE user

\* the rows with their derived columns paid and real_uid
RECURSIVE WithPaid(_, _)
WithPaid(rows, user_map) ==
    IF rows = <<>> THEN <<>>
    ELSE <<[user     |-> Head(rows).user,
            date_str |-> Head(rows).date_str,
            paid     |-> Paid(Head(rows)),
            real_uid |-> RealUid(Head(rows).user, user_map)]>>
         \o WithPaid(Tail(rows), user_map)

\* groupby(field)['paid'].sum(): the keys present, missing keys dropped
GroupKeys(rows, field) == {rows[i][field] : i \in 1..Len(rows)} \ {NaN}

\* the orderings sort_values(ascending=False) may give the days: totals
\* never increase; the order of days with equal totals is not fixed
Rankings(rows) ==
    {p \in Orderings(GroupKeys(rows, "date_str")) :
        \A i \in 1..(Len(p) - 1) :
            SumPaid(rows, "date_str", p[i]) >= SumPaid(rows, "date_str", p[i + 1])}

\* idxmax over the sums of a groupby, given in the order of the sorted
\* keys: the position of the first largest sum
FirstMax(totals) ==
    CHOOSE i \in 1..Len(totals) :
        /\ \A j \in 1..Len(totals) : totals[j] <= totals[i]
        /\ \A j \in 1..(i - 1) : totals[j] < totals[i]

\* astype(str).str.replace(r'\.0$', '')
join_id(t) ==
    IF Len(t) >= 2 /\ SubSeq(t, Len(t) - 1, Len(t)) = <<".", "0">>
    THEN SubSeq(t, 1, Len(t) - 2)
    ELSE t

\* astype(str).str.strip() of an author cell
author_clean(a) == strip(IF isna(a) THEN NaNText ELSE a)

\* the rows of orders.merge(books, on='join_id', how='left') for one order
RECURSIVE Matches(_, _)
Matches(order, books) ==
    IF books = <<>> THEN <<>>
    ELSE (IF join_id(Head(books).id) = join_id(order.item)
          THEN <<[qty |-> order.qty, author_clean |-> author_clean(Head(books).author)]>>
          ELSE <<>>)
         \o Matches(order, Tail(books))

RECURSIVE Merged(_, _)
Merged(orders, books) ==
    IF orders = <<>> THEN <<>>
    ELSE (IF Matches(Head(orders), books) = <<>>
          THEN <<[qty |-> Head(orders).qty, author_clean |-> NaNText]>>
          ELSE Matches(Head(orders), books))
         \o Merged(Tail(orders), books)

\* groupby('author_clean')[qty].sum() for one author; a missing quantity is
\* skipped by sum
RECURSIVE AuthorQty(_, _)
AuthorQty(merged, a) ==
    IF merged = <<>> THEN 0
    ELSE (IF Head(merged).author_clean = a THEN fillna0(Head(merged).qty) ELSE 0)
         + AuthorQty(Tail(merged), a)

\* books['author_clean'].nunique()
CountAuthors(books) ==
    Cardinality({author_clean(books[i].author) : i \in 1..Len(books)})

\* the sentinel of pop_author
Unknown == <<"U", "n", "k", "n", "o", "w", "n">>

\* pop_author
PopAuthor(has_author, merged) ==
    IF ~has_author \/ merged = <<>> THEN Unknown
    ELSE LET authors == {merged[i].author_clean : i \in 1..Len(merged)} \ {NaNText}
             keys == Sorted(authors)
         IN IF authors = {} THEN Unknown
            ELSE keys[FirstMax([i \in 1..Len(keys) |-> AuthorQty(merged, keys[i])])]

\* how many days the report lists
TopDays == 5

\* process_dataset(folder_path) on the files ds of the folder: recon is
\* what reconciliate_users returned, rows the orders kept after dropna,
\* ranking the days of daily_revenue in the order sort_values gave them
process_dataset(folder_name, ds, recon, rows, ranking) ==
    IF ~ds.files_ok THEN FileNotFoundError
    ELSE IF \E cols \in {Cols(ds.order_columns, BookColumns(ds.book_columns))} :
               \E role \in DOMAIN cols : cols[role] = NoColumn
    THEN StopIteration
    ELSE IF \E i \in 1..Len(rows) : rows[i].price.tag # "ok"
    THEN ValueError
    ELSE LET orders == WithPaid(rows, recon.id_map)
             has_author == <<"a", "u", "t", "h", "o", "r">> \in Range(BookColumns(ds.book_columns))
             buyers == Sorted(GroupKeys(orders, "real_uid"))
         IN IF buyers = <<>> THEN ValueError
            ELSE LET top_buyer_id ==
                         buyers[FirstMax([i \in 1..Len(buyers) |->
                                            SumPaid(orders, "real_uid", buyers[i])])]
                 IN [tag          |-> "ok",
                     folder       |-> folder_name,
                     top_5        |-> Prefix(ranking, TopDays),
                     uniq_u       |-> recon.count,
                     uniq_a       |-> IF has_author THEN CountAuthors(ds.books) ELSE 0,
                     pop_a        |-> PopAuthor(has_author, Merged(rows, ds.books)),
                     best_ids_str |-> Join(<<",", " ">>,
                                           IF top_buyer_id \in DOMAIN recon.groups
                                           THEN recon.groups[top_buyer_id]
                                           ELSE <<top_buyer_id>>),
                     chart        |-> generate_plot(ranking)]

\* the rankings of the days of the kept orders; none is needed when a
\* price could not be read
DayRankings(rows) ==
    IF \E i \in 1..Len(rows) : rows[i].price.tag # "ok" THEN {<<>>}
    ELSE Rankings(WithPaid(rows, <<>>))

\* every result process_dataset can give on the files ds
Outcomes(folder_name, ds) ==
    UNION {{process_dataset(folder_name, ds, Reconciled(comps, listing), rows, ranking) :
              listing \in Listings(comps), ranking \in DayRankings(rows)} :
             <<comps, rows>> \in {Comps(ds.users)} \X {Retained(ds.orders)}}

\* --------------------------------------------------------------------- main

DATA_DIRS == <<"DATA1", "DATA2", "DATA3">>

\* the tabs the template renders from results: the first one is active
Render(rs) ==
    [i \in 1..Len(rs) |->
        [folder |-> rs[i].folder, active |-> (i = 1), uniq_u |-> rs[i].uniq_u,
         uniq_a |-> rs[i].uniq_a, pop_a |-> rs[i].pop_a, top_5 |-> rs[i].top_5,
         best_ids_str |-> rs[i].best_ids_str, chart |-> rs[i].chart]]

\* ------------------------------------------------------------------ inputs

\* user ids as the users file gives them
IdNames == << <<"1">>, <<"2">>, <<"3">> >>
UserIds == {IdNames[n] : n \in 1..Len(IdNames)}

\* the ids of a users table are named in the order in which they first
\* occur: the reconciler compares ids only for equality, so every table
\* is one of these up to the names of its ids
NamedInOrder(rows) ==
    \A i \in 1..Len(rows) :
        \/ isna(rows[i].id)
        \/ \E n \in 1..Len(IdNames) :
              /\ rows[i].id = IdNames[n]
              /\ \A m \in 1..(n - 1) : \E j \in 1..(i - 1) : rows[j].id = IdNames[m]

\* "Ann@x.io" and the same address with other case and padding
Email_Ann == <<"A", "n", "n", "@", "x", ".", "i", "o">>
Email_AnnPadded == <<" ", "a", "n", "n", "@", "X", ".", "I", "O", " ">>
\* "a@b": 3 characters
Email_Short == <<"a", "@", "b">>
\* "12-345" and "(12)345": the digits 12345; "12-34": the 4 digits 1234
Phone_Five == <<"1", "2", "-", "3", "4", "5">>
Phone_FiveBrackets == <<"(", "1", "2", ")", "3", "4", "5">>
Phone_Four == <<"1", "2", "-", "3", "4">>
\* " 12 Long StreetA" and " 12 long streetB" start with a blank and differ
\* in their 16th character; "12 Long StreetA, Apt 9" has no blank in front
Addr_PaddedA == <<" ", "1", "2", " ", "L", "o", "n", "g", " ", "S", "t", "r", "e", "e", "t", "A">>
Addr_PaddedB == <<" ", "1", "2", " ", "l", "o", "n", "g", " ", "s", "t", "r", "e", "e", "t", "B">>
Addr_LongA == <<"1", "2", " ", "L", "o", "n", "g", " ", "S", "t", "r", "e", "e", "t", "A", ",", " ", "A", "p", "t", " ", "9">>

\* the contact cells of a user row
Contacts ==
    { [email |-> NaN,             phone |-> NaN,                address |-> NaN],
      [email |-> Email_Ann,       phone |-> NaN,                address |-> NaN],
      [email |-> Email_AnnPadded, phone |-> Phone_Five,         address |-> NaN],
      [email |-> Email_Short,     phone |-> Phone_FiveBrackets, address |-> Addr_PaddedA],
      [email |-> Email_Short,     phone |-> Phone_Four,         address |-> Addr_PaddedB],
      [email |-> NaN,             phone |-> Phone_Four,         address |-> Addr_LongA] }

UserRows ==
    {[id |-> i, email |-> k.email, phone |-> k.phone, address |-> k.address] :
        i \in UserIds \cup {NaN}, k \in Contacts}

\* the column names of the orders file, with and without a price column
OrderColumns == <<<<"T", "i", "m", "e", "s", "t", "a", "m", "p">>, <<"u", "n", "i", "t", "_", "p", "r", "i", "c", "e">>, <<"Q", "u", "a", "n", "t", "i", "t", "y">>, <<"b", "o", "o", "k", "_", "i", "d">>, <<"u", "s", "e", "r", "_", "i", "d">>>>
OrderColumnsNoPrice == <<<<"T", "i", "m", "e", "s", "t", "a", "m", "p">>, <<"c", "o", "s", "t">>, <<"Q", "u", "a", "n", "t", "i", "t", "y">>, <<"b", "o", "o", "k", "_", "i", "d">>, <<"u", "s", "e", "r", "_", "i", "d">>>>
\* the keys of the books file, with and without an author
BookColumnsAuthor == <<<<":", "i", "d">>, <<":", "t", "i", "t", "l", "e">>, <<":", "a", "u", "t", "h", "o", "r">>>>
BookColumnsPlain == <<<<":", "i", "d">>, <<":", "t", "i", "t", "l", "e">>>>

\* "2020-01-01 1 P.M.", "2020-01-01", "2020-01-02" and the unreadable "n/a"
Date_Day1Pm == <<"2", "0", "2", "0", "-", "0", "1", "-", "0", "1", " ", "1", " ", "P", ".", "M", ".">>
Date_Day1 == <<"2", "0", "2", "0", "-", "0", "1", "-", "0", "1">>
Date_Day2 == <<"2", "0", "2", "0", "-", "0", "1", "-", "0", "2">>
Date_Garbled == <<"n", "/", "a">>

\* "€1" and "$1"
Price_Euro == <<"€", "1">>
Price_Dollar == <<"$", "1">>

Order(u, q, p, d, it) == [user |-> u, qty |-> q, price |-> p, date |-> d, item |-> it]

\* the rows of an orders file: users 1, 2 and 3 buy on two days; user 9 is
\* no row of any user table and has no quantity; one row has an unreadable
\* timestamp; one has neither user nor price
Order_User1 == Order(<<"1">>, 1, Price_Euro, Date_Day1Pm, <<"4", "2">>)
Order_User2 == Order(<<"2">>, 1, Price_Dollar, Date_Day1, <<"4", "2", ".", "0">>)
Order_User3 == Order(<<"3">>, 2, Price_Dollar, Date_Day2, <<"7">>)
Order_User9 == Order(<<"9">>, NoQty, Price_Euro, Date_Day2, <<"7">>)
Order_Garbled == Order(<<"1">>, 2, Price_Dollar, Date_Garbled, <<"4", "2">>)
Order_NoUser == Order(NaN, 1, NaN, Date_Day2, <<"5">>)

OrderRows ==
    {Order_User1, Order_User2, Order_User3, Order_User9, Order_Garbled, Order_NoUser}

\* the rows of a books file: "Ann" twice, once padded, under the ids 42
\* and 42.0; " Bob" under 7.0; a book 7 without author
Book_Ann == [id |-> <<"4", "2">>, author |-> <<"A", "n", "n">>]
Book_AnnPadded == [id |-> <<"4", "2", ".", "0">>, author |-> <<"A", "n", "n", " ">>]
Book_Bob == [id |-> <<"7", ".", "0">>, author |-> <<" ", "B", "o", "b">>]
Book_NoAuthor == [id |-> <<"7">>, author |-> NaN]

\* the books files: none, one author under two ids, two authors, a book
\* without author alone and next to an author
BookTables ==
    { <<>>,
      <<Book_Ann, Book_AnnPadded>>,
      <<Book_Ann, Book_Bob>>,
      <<Book_NoAuthor>>,
      <<Book_Bob, Book_NoAuthor>> }

UserRow(i, e, p, a) == [id |-> i, email |-> e, phone |-> p, address |-> a]

\* a user table in which users 1 and 2 have one email, and one in which
\* no two users have a value in common
Users_Aliases ==
    <<UserRow(<<"1">>, Email_Ann, NaN, NaN),
      UserRow(<<"2">>, Email_AnnPadded, Phone_Five, NaN),
      UserRow(<<"3">>, NaN, NaN, NaN)>>
Users_Apart ==
    <<UserRow(<<"1">>, Email_Ann, NaN, NaN),
      UserRow(<<"2">>, Email_Short, Phone_Four, NaN),
      UserRow(<<"3">>, NaN, NaN, NaN)>>

Folder(ok, ocols, bcols, u, o, b) ==
    [files_ok |-> ok, order_columns |-> ocols, book_columns |-> bcols,
     users |-> u, orders |-> o, books |-> b]

\* a folder with a file missing, and one whose orders have no price column
Folder_Missing == Folder(FALSE, OrderColumns, BookColumnsAuthor, <<>>, <<>>, <<>>)
Folder_NoPrice == Folder(TRUE, OrderColumnsNoPrice, BookColumnsAuthor, Users_Apart, <<>>, <<>>)

\* the folders main is run on: two that load, one with a file missing, one
\* without a price column, one whose only order has an unreadable timestamp
Folder_Aliases ==
    Folder(TRUE, OrderColumns, BookColumnsAuthor, Users_Aliases,
           <<Order_User1, Order_User2, Order_User3>>, <<Book_Ann, Book_Bob>>)
Folder_Apart ==
    Folder(TRUE, OrderColumns, BookColumnsPlain, Users_Apart,
           <<Order_User3, Order_User9, Order_Garbled>>, <<Book_NoAuthor>>)
Folder_AllGarbled ==
    Folder(TRUE, OrderColumns, BookColumnsAuthor, Users_Apart,
           <<Order_Garbled>>, <<Book_Ann>>)

FolderPool ==
    {Folder_Aliases, Folder_Apart, Folder_Missing, Folder_NoPrice, Folder_AllGarbled}

\* -------------------------------------------------------- state machines

NotCalledYet == <<>>

DateIdle == date_str = NaN /\ cleaned = NaN /\ recleaned = NaN
PriceIdle == value = NaN /\ amount = NotCalled
ReconIdle ==
    /\ users_df = <<>>
    /\ n_groups = 0
    /\ id_map = NotCalledYet
    /\ groups = NotCalledYet

NoDataset == <<>>
DatasetIdle == dataset = NoDataset /\ result = NotCalled
MainIdle == fs = <<>> /\ dir_idx = 0 /\ results = <<>> /\ output = <<>>

\* ------------------------------------------- the date cleaner on its own

\* the raw timestamps: a missing cell, or a text of at most MaxDateLen
\* characters of the markers the cleaner repairs
DateAlphabet == {"A", "P", "M", ".", " "}

InitDate ==
    /\ pc = "start"
    /\ \/ date_str = NaN
       \/ \E k \in 0..MaxDateLen : date_str \in [1..k -> DateAlphabet]
    /\ cleaned = NaN
    /\ recleaned = NaN
    /\ PriceIdle
    /\ ReconIdle
    /\ DatasetIdle
    /\ MainIdle

CleanDate ==
    /\ pc = "start"
    /\ cleaned' = clean_date_string(date_str)
    /\ pc' = "cleaned"
    /\ UNCHANGED <<date_str, recleaned, priceVars, reconVars, datasetVars, mainVars>>

CleanDateAgain ==
    /\ pc = "cleaned"
    /\ recleaned' = clean_date_string(cleaned)
    /\ pc' = "recleaned"
    /\ UNCHANGED <<date_str, cleaned, priceVars, reconVars, datasetVars, mainVars>>

NextDate == CleanDate \/ CleanDateAgain

SpecDate == InitDate /\ [][NextDate]_vars

\* ------------------------------------------ the price cleaner on its own

\* the raw prices: a missing cell, or a text of at most MaxPriceLen
\* characters
PriceAlphabet == {"€", "$", "7", ".", " "}

InitPrice ==
    /\ pc = "start"
    /\ \/ value = NaN
       \/ \E k \in 0..MaxPriceLen : value \in [1..k -> PriceAlphabet]
    /\ amount = NotCalled
    /\ DateIdle
    /\ ReconIdle
    /\ DatasetIdle
    /\ MainIdle

CleanPrice ==
    /\ pc = "start"
    /\ amount' = clean_price(value)
    /\ pc' = "priced"
    /\ UNCHANGED <<value, dateVars, reconVars, datasetVars, mainVars>>

NextPrice == CleanPrice

SpecPrice == InitPrice /\ [][NextPrice]_vars

\* ------------------------------------------- the reconciler on its own

InitRecon ==
    /\ pc = "start"
    /\ \E k \in 0..MaxRows :
          users_df \in {rows \in [1..k -> UserRows] : NamedInOrder(rows)}
    /\ n_groups = 0
    /\ id_map = NotCalledYet
    /\ groups = NotCalledYet
    /\ DateIdle
    /\ PriceIdle
    /\ DatasetIdle
    /\ MainIdle

Reconciliate ==
    /\ pc = "start"
    /\ \E comps \in {Comps(users_df)} : \E listing \in Listings(comps) :
          LET r == Reconciled(comps, listing)
          IN /\ n_groups' = r.count
             /\ id_map' = r.id_map
             /\ groups' = r.groups
    /\ pc' = "reconciled"
    /\ UNCHANGED <<users_df, dateVars, priceVars, datasetVars, mainVars>>

NextRecon == Reconciliate

SpecRecon == InitRecon /\ [][NextRecon]_vars

\* ------------------------------------------- process_dataset on its own

InitDataset ==
    /\ pc = "start"
    /\ \/ dataset \in {Folder_Missing, Folder_NoPrice}
       \/ \E bcols \in {BookColumnsAuthor, BookColumnsPlain} :
          \E u \in {Users_Aliases, Users_Apart} :
          \E n \in 0..MaxOrders : \E o \in [1..n -> OrderRows] :
          \E b \in BookTables :
             dataset = Folder(TRUE, OrderColumns, bcols, u, o, b)
    /\ result = NotCalled
    /\ users_df = dataset.users
    /\ n_groups = 0
    /\ id_map = NotCalledYet
    /\ groups = NotCalledYet
    /\ DateIdle
    /\ PriceIdle
    /\ MainIdle

\* one call of process_dataset; user_map and user_groups are kept in
\* id_map and groups
ProcessDataset ==
    /\ pc = "start"
    /\ \E comps \in {Comps(dataset.users)} : \E rows \in {Retained(dataset.orders)} :
       \E listing \in Listings(comps) : \E ranking \in DayRankings(rows) :
          LET recon == Reconciled(comps, listing)
          IN /\ result' = process_dataset("DATA1", dataset, recon, rows, ranking)
             /\ n_groups' = recon.count
             /\ id_map' = recon.id_map
             /\ groups' = recon.groups
    /\ pc' = "processed"
    /\ UNCHANGED <<users_df, dataset, dateVars, priceVars, mainVars>>

NextDataset == ProcessDataset

SpecDataset == InitDataset /\ [][NextDataset]_vars

\* ------------------------------------------------------------------- main

InitMain ==
    /\ pc = "loop"
    /\ fs \in [1..Len(DATA_DIRS) -> FolderPool]
    /\ dir_idx = 1
    /\ results = <<>>
    /\ output = <<>>
    /\ DateIdle
    /\ PriceIdle
    /\ ReconIdle
    /\ DatasetIdle

\* one pass of the loop over DATA_DIRS: main has no handler, so an
\* exception of process_dataset ends the run
ProcessFolder ==
    /\ pc = "loop"
    /\ dir_idx <= Len(DATA_DIRS)
    /\ \E data \in Outcomes(DATA_DIRS[dir_idx], fs[dir_idx]) :
          IF data.tag = "ok"
          THEN /\ results' = Append(results, data)
               /\ dir_idx' = dir_idx + 1
               /\ pc' = "loop"
          ELSE /\ pc' = "crashed"
               /\ UNCHANGED <<results, dir_idx>>
    /\ UNCHANGED <<fs, output, dateVars, priceVars, reconVars, datasetVars>>

\* after the loop: render the template and write OUTPUT_FILE
WriteReport ==
    /\ pc = "loop"
    /\ dir_idx > Len(DATA_DIRS)
    /\ output' = Render(results)
    /\ pc' = "written"
    /\ UNCHANGED <<fs, dir_idx, results, dateVars, priceVars, reconVars, datasetVars>>

NextMain == ProcessFolder \/ WriteReport

SpecMain == InitMain /\ [][NextMain]_vars

\* ------------------------------------------------------ claims: cleaners

\* C7 as stated: clean_date_string(clean_date_string(s)) = clean_date_string(s)
\* for every input s, missing input included.
C7_IdempotentAlways ==
    pc = "recleaned" => recleaned = cleaned

\* C7 amended: cleaning twice gives the same text as cleaning once for every
\* input that is missing or does not contain the text "..M..".
C7_IdempotentWithoutDoubleDots ==
    (pc = "recleaned" /\ (isna(date_str) \/ ~Contains(date_str, <<".", ".", "M", ".", ".">>)))
        => recleaned = cleaned

\* an input with markers to repair was cleaned twice and the second pass
\* left it alone
C7_Witness ==
    /\ pc = "recleaned"
    /\ date_str = <<"A", ".", "M", ".", " ">>
    /\ cleaned = <<"A", "M">>
    /\ recleaned = cleaned

\* C8: for every non-null input without a digit character clean_price
\* returns 0.0 and raises no error.
C8_NoDigitsGivesZero ==
    (pc = "priced" /\ ~isna(value) /\ Keep(value, Digits) = <<>>)
        => amount = Ok(0)

\* ---------------------------------------------------- claims: reconciler

\* the distinct non-null ids of the user table
DistinctIds == {users_df[i].id : i \in 1..Len(users_df)} \ {NaN}

\* a fragment the claims count: present and longer than 4 characters
LongFragment(v) == ~isna(v) /\ Len(v) > 4

\* the address fragment as C1 words it: the first 15 characters of the
\* lower-cased address
AddressAsWorded(row) ==
    IF isna(row.address) THEN NaN ELSE Prefix(lower(row.address), 15)

\* the pairs of ids that have rows whose normalized values under key are
\* equal and long
SharePairs(props, key) ==
    {<<users_df[i].id, users_df[j].id>> :
        <<i, j>> \in {ij \in (1..Len(users_df)) \X (1..Len(users_df)) :
                        /\ ~isna(users_df[ij[1]].id)
                        /\ ~isna(users_df[ij[2]].id)
                        /\ LongFragment(props[ij[1]][key])
                        /\ props[ij[1]][key] = props[ij[2]][key]}}

\* the same, under any category
SharePairsAny(props) == UNION {SharePairs(props, key) : key \in Categories}

\* x and y are mapped, and to the same canonical id
SameCanonical(x, y) ==
    /\ x \in DOMAIN id_map
    /\ y \in DOMAIN id_map
    /\ id_map[x] = id_map[y]

\* C1 as stated: two records with non-null ids whose normalized email
\* (lower-cased, trimmed), digits-only phone or first-15-characters
\* lower-cased address is equal and longer than 4 characters map to the
\* same canonical id.
C1_SharedValueAsWorded ==
    pc = "reconciled" =>
        \A i, j \in 1..Len(users_df) :
            (/\ ~isna(users_df[i].id)
             /\ ~isna(users_df[j].id)
             /\ \/ /\ LongFragment(Prop(users_df[i], "email"))
                   /\ Prop(users_df[i], "email") = Prop(users_df[j], "email")
                \/ /\ LongFragment(Prop(users_df[i], "phone"))
                   /\ Prop(users_df[i], "phone") = Prop(users_df[j], "phone")
                \/ /\ LongFragment(AddressAsWorded(users_df[i]))
                   /\ AddressAsWorded(users_df[i]) = AddressAsWorded(users_df[j]))
            => SameCanonical(users_df[i].id, users_df[j].id)

\* C1 amended: two records with non-null ids whose lower-cased trimmed
\* email, digits-only phone, or first 15 characters of the lower-cased and
\* trimmed address is equal and longer than 4 characters map to the same
\* canonical id; so do all ids that share one value, and so do A and C when
\* A shares a value with B and B shares a value of any category with C.
C1_SharedValueSameCanonical ==
    pc = "reconciled" =>
        \A share \in {SharePairsAny(PropsOf(users_df))} :
            /\ \A p \in share : SameCanonical(p[1], p[2])
            /\ \A p, q \in share : p[2] = q[1] => SameCanonical(p[1], q[2])

\* A shares an email with B, B shares a phone with C, A and C share nothing
\* directly, and A and C have one canonical id
C1_Witness ==
    /\ pc = "reconciled"
    /\ \E props \in {PropsOf(users_df)} :
       \E p \in SharePairs(props, "email") : \E q \in SharePairs(props, "phone") :
          /\ p[2] = q[1]
          /\ p[1] # q[2]
          /\ <<p[1], q[2]>> \notin SharePairsAny(props)
          /\ SameCanonical(p[1], q[2])

\* x and y are joined by a chain of at most n sharing steps
RECURSIVE LinkedIn(_, _, _, _)
LinkedIn(share, x, y, n) ==
    \/ x = y
    \/ /\ n > 0
       /\ \E p \in share : p[1] = x /\ LinkedIn(share, p[2], y, n - 1)

\* C2: two distinct ids get the same canonical id only if a chain of users
\* links them in which each consecutive pair shares a normalized email,
\* phone or address fragment longer than 4 characters; a user matching
\* nobody is a singleton group whose canonical id is its own id.
C2_NoMergeOnShortFragments ==
    pc = "reconciled" =>
        \A share \in {SharePairsAny(PropsOf(users_df))} : \A x \in DistinctIds :
            /\ \A y \in DistinctIds :
                  (x # y /\ SameCanonical(x, y))
                      => LinkedIn(share, x, y, Cardinality(DistinctIds))
            /\ (\A p \in share : p[1] = x => p[2] = x)
                  => /\ x \in DOMAIN id_map
                     /\ id_map[x] = x
                     /\ x \in DOMAIN groups
                     /\ groups[x] = <<x>>

\* a user has the same email of 3 characters as a second user and the same
\* 4-digit phone as a third, and is a group of its own
C2_Witness ==
    /\ pc = "reconciled"
    /\ \E props \in {PropsOf(users_df)} : \E i, j, k \in 1..Len(users_df) :
          /\ Cardinality({users_df[i].id, users_df[j].id, users_df[k].id} \ {NaN}) = 3
          /\ props[i].email = props[j].email
          /\ ~isna(props[i].email) /\ Len(props[i].email) = 3
          /\ props[j].phone = props[k].phone
          /\ ~isna(props[j].phone) /\ Len(props[j].phone) = 4
          /\ users_df[j].id \in DOMAIN groups
          /\ groups[users_df[j].id] = <<users_df[j].id>>
          /\ ~SameCanonical(users_df[i].id, users_df[j].id)
          /\ ~SameCanonical(users_df[j].id, users_df[k].id)

\* C3: id_map is defined on every distinct non-null user id and
\* id_map[id_map[x]] = id_map[x] for every x of its domain.
C3_IdMapTotalIdempotent ==
    pc = "reconciled" =>
        /\ DOMAIN id_map = DistinctIds
        /\ \A x \in DOMAIN id_map :
              /\ id_map[x] \in DOMAIN id_map
              /\ id_map[id_map[x]] = id_map[x]

\* a table with a row without id and an id mapped to another id, which
\* maps to itself
C3_Witness ==
    /\ pc = "reconciled"
    /\ \E i \in 1..Len(users_df) : isna(users_df[i].id)
    /\ \E x \in DOMAIN id_map :
          /\ id_map[x] # x
          /\ id_map[id_map[x]] = id_map[x]

RECURSIVE SumOver(_, _)
SumOver(S, f) ==
    IF S = {} THEN 0
    ELSE LET x == CHOOSE x \in S : TRUE IN f[x] + SumOver(S \ {x}, f)

\* C4: the alias groups partition the distinct non-null user ids, and the
\* group count plus the sum over the groups of (alias count - 1) is the
\* number of distinct non-null user ids.
C4_GroupsPartitionIds ==
    pc = "reconciled" =>
        /\ \A x \in DistinctIds :
              Cardinality({g \in DOMAIN groups : x \in Range(groups[g])}) = 1
        /\ \A g \in DOMAIN groups :
              /\ Range(groups[g]) \subseteq DistinctIds
              /\ Cardinality(Range(groups[g])) = Len(groups[g])
        /\ n_groups + SumOver(DOMAIN groups, [g \in DOMAIN groups |-> Len(groups[g]) - 1])
              = Cardinality(DistinctIds)

\* a table in which an id occurs in two rows and a group has two aliases
C4_Witness ==
    /\ pc = "reconciled"
    /\ \E i, j \in 1..Len(users_df) :
          i # j /\ users_df[i].id = users_df[j].id /\ ~isna(users_df[i].id)
    /\ \E g \in DOMAIN groups : Len(groups[g]) = 2
    /\ n_groups = 1

\* ------------------------------------------------------ claims: pipeline

\* process_dataset raises on the files ds, whatever the listing and ranking
Fails(ds) == \A data \in Outcomes("DATA1", ds) : data.tag # "ok"

\* the names of the folders of DATA_DIRS from position i on that load
RECURSIVE LoadedFrom(_)
LoadedFrom(i) ==
    IF i > Len(DATA_DIRS) THEN <<>>
    ELSE (IF Fails(fs[i]) THEN <<>> ELSE <<DATA_DIRS[i]>>) \o LoadedFrom(i + 1)

\* C5: when process_dataset fails for a folder, main leaves that folder out
\* of the results, still processes every remaining folder of DATA_DIRS in
\* order, and still writes the document with the folders that loaded.
C5_FailuresIsolated ==
    pc # "loop" =>
        /\ pc = "written"
        /\ [i \in 1..Len(output) |-> output[i].folder] = LoadedFrom(1)

\* the orders file of the folder has columns for every role and no order is
\* left after the rows with an unreadable timestamp are dropped
NoOrderLeft ==
    /\ dataset.files_ok
    /\ \A role \in DOMAIN Cols(dataset.order_columns, BookColumns(dataset.book_columns)) :
          Cols(dataset.order_columns, BookColumns(dataset.book_columns))[role] # NoColumn
    /\ Retained(dataset.orders) = <<>>

\* C6: when no order is left after the rows with unparseable timestamps are
\* dropped, process_dataset raises no error and returns a result with an
\* empty top-days list, an empty chart and the most-popular author "Unknown".
C6_EmptyOrdersDegrade ==
    (pc = "processed" /\ NoOrderLeft) =>
        /\ result.tag = "ok"
        /\ result.top_5 = <<>>
        /\ result.chart = <<>>
        /\ result.pop_a = Unknown

\* the canonical id of an order's user: the id itself when it is not mapped
CanonicalOf(u) == IF u \in DOMAIN id_map THEN id_map[u] ELSE u

\* the paid amount credited to canonical id c by the kept orders from row i on
RECURSIVE Credited(_, _, _)
Credited(rows, c, i) ==
    IF i > Len(rows) THEN 0
    ELSE (IF ~isna(rows[i].user) /\ CanonicalOf(rows[i].user) = c
          THEN fillna0(rows[i].qty) * rows[i].price.val ELSE 0)
         + Credited(rows, c, i + 1)

\* the ids whose canonical id is c; c alone when it is no mapped id
AliasesOf(c) ==
    IF c \in DOMAIN id_map THEN {x \in DOMAIN id_map : id_map[x] = c} ELSE {c}

\* the canonical ids the kept orders credit
Buyers(rows) == {CanonicalOf(rows[i].user) : i \in {j \in 1..Len(rows) : ~isna(rows[j].user)}}

\* the text lists exactly the ids of S, separated by ", "
ListsExactly(text, S) == \E order \in Orderings(S) : text = Join(<<",", " ">>, order)

\* C9: every kept order's user is replaced by its canonical id (its own id
\* when unmapped), paid amounts are summed per canonical id, the best buyer
\* is a canonical id with the largest sum, and the alias string lists every
\* member of that buyer's alias group, or the id itself when it has no group.
C9_BestBuyerByCanonicalId ==
    (pc = "processed" /\ result.tag = "ok") =>
        \E rows \in {Retained(dataset.orders)} : \E b \in Buyers(rows) :
            /\ \A c \in Buyers(rows) : Credited(rows, c, 1) <= Credited(rows, b, 1)
            /\ ListsExactly(result.best_ids_str, AliasesOf(b))

\* two aliases of one identity bought, a third user alone paid more than
\* either alias but less than both together, and the alias string lists
\* the two aliases
C9_Witness ==
    /\ pc = "processed"
    /\ result.tag = "ok"
    /\ dataset.users = Users_Aliases
    /\ dataset.orders = <<Order_User1, Order_User2, Order_User3>>
    /\ ListsExactly(result.best_ids_str, {<<"1">>, <<"2">>})

\* the books file has an author field
HasAuthor == <<"a", "u", "t", "h", "o", "r">> \in Range(BookColumns(dataset.book_columns))

\* the author values after stringify-and-trim, "nan" left out
AuthorsNamed ==
    {strip(dataset.books[i].author) :
        i \in {j \in 1..Len(dataset.books) : ~isna(dataset.books[j].author)}}
    \ {NaNText}

\* C10: with an author field the unique-author count is the number of
\* distinct author values after stringify-and-trim, "nan" excluded, so a
\* row with a missing author adds nothing; without an author field it is 0.
C10_AuthorCountExcludesNan ==
    (pc = "processed" /\ result.tag = "ok") =>
        result.uniq_a = (IF HasAuthor THEN Cardinality(AuthorsNamed) ELSE 0)

====
